---- MODULE Spec2Model ----
(***************************************************************************)
(* A model of pykrasue: the SpriteGroup authoring structure                *)
(* (src/krasue/krasue.py) and the two OpenGL render backends               *)
(* (src/krasue/backends/opengl/modern.py, azdo.py).                        *)
(*                                                                         *)
(* Numbers.  Python floats and numpy float32/float64 values are kept in    *)
(* fixed point with one fractional bit: the model integer r stands for     *)
(* the real number r / FxOne.  Every float of the program that the model   *)
(* reaches is a multiple of 1/2 (image sizes are integers, the modern      *)
(* backend halves them), so the representation is exact.  Integers of the  *)
(* program (indices, handles, sizes, GL names) are plain integers.         *)
(***************************************************************************)
EXTENDS Integers, Sequences, FiniteSets, TLC

VARIABLES
    \* SpriteGroup (src/krasue/krasue.py)
    object_types,   \* _object_types: np.uint32 array, 1-based sequence here
    transforms,     \* _transforms: np.float32 array (4 per sprite)
    size,           \* _size
    capacity,       \* _capacity
    has_id,         \* whether the slot _id has been assigned
    id,             \* _id (meaningful only when has_id)
    \* Renderer (src/krasue/backends/opengl/*.py)
    variant,        \* which Renderer class: "azdo" or "modern"
    image_history,  \* _image_history: insertion-ordered dict, as a sequence
                    \* of [name, handle] items
    image_sizes,    \* _image_sizes: flat numpy array
    max_image_w,    \* _max_image_w
    max_image_h,    \* _max_image_h
    image_gl_id,    \* _image_gl_id
    sprite_groups,  \* _sprite_groups: list of <<VAO, VBO, size>>
    global_info,    \* the uniform screenSize_maxSize uploaded by after_setup
    dummy_vao,      \* _dummy_vao
    \* the GL context, as far as the renderer drives it
    textures,       \* texture objects: storage request and sub-image uploads
    vaos,           \* number of vertex array names generated
    buffers,        \* buffer objects: the data store of each
    \* observation of the host: the last call made and what it produced
    op,
    setups,         \* number of after_setup calls made
    \* the host's notes
    addlog,         \* the add calls that returned since the last remove call
    addbase,        \* _size when addlog was last emptied
    firstcalls,     \* the first load_image call made with each name
    inscribed,      \* what the last inscribe that returned uploaded
    \* Invocation: construction and the main loop
    pc,             \* the statement of __init__ or run() to execute next
    backend,        \* the backend argument of __init__
    behavior,       \* the behavior argument of __init__
    renderers,      \* number of Renderer objects constructed
    setup_calls,    \* number of Renderer.setup calls made
    should_close,   \* the window's should-close flag (glfw)
    key_escape,     \* the Escape key is down, as of the last poll_events
    drawing,        \* start_drawing was called and finish_drawing not yet
    frame,          \* the statements run() executed in this iteration
    caught,         \* the host's hook handled the exception of its last call
    escaped         \* the exception that left __init__ or run(), and where

groupVars == <<object_types, transforms, size, capacity, has_id, id>>
registryVars == <<image_history, image_sizes, max_image_w, max_image_h>>
gpuVars ==
    <<image_gl_id, sprite_groups, global_info, dummy_vao, textures, vaos, buffers>>
hostVars == <<op, setups>>
noteVars == <<addlog, addbase, firstcalls, inscribed>>
configVars == <<backend, behavior, renderers, setup_calls>>
loopVars == <<should_close, key_escape, drawing, frame>>
runVars == <<pc, configVars, loopVars, caught, escaped>>
vars == <<groupVars, variant, registryVars, gpuVars, hostVars, noteVars, runVars>>

----------------------------------------------------------------------------
(* Bounds of the exploration *)

MaxSize == 4        \* add is explored while _size < MaxSize
MaxNegSize == 1     \* remove is explored while _size > -MaxNegSize
MaxImages == 3      \* load_image of a new name while fewer names are known
MaxSetups == 2      \* after_setup calls explored
MaxDrawSize == 3    \* add is explored while _size < MaxDrawSize in Spec
MaxDrawImages == 2  \* as MaxImages, in Spec
MaxGroups == 2      \* inscribe calls explored in SpecHandles

----------------------------------------------------------------------------
(* Numbers *)

FxOne == 2

Fx(n) == n * FxOne

Pow2(k) == 2 ^ k

Abs(v) == IF v < 0 THEN -v ELSE v

\* n / 2 of a Python int n (true division), in fixed point
TrueDivTwo(n) == Fx(n) \div 2

\* conversion of a float in [0, 2^31) to np.uint32: the fraction is dropped
AsUint32(r) == Fx(r \div FxOne)

\* an integer in [0, 2^31) stored in an np.uint32 array: held exactly
StoreUint32(n) == n

\* the step between neighbouring float32 values around the magnitude m
\* (m in fixed point): 24 significant bits
RECURSIVE Float32Step(_, _)
Float32Step(m, k) == IF m < Pow2(24 + k) THEN Pow2(k) ELSE Float32Step(m, k + 1)

\* round to nearest multiple of step, ties to the even multiple
RoundToStep(m, step) ==
    LET q == m \div step
        r == m % step
    IN  IF 2 * r < step THEN q * step
        ELSE IF 2 * r > step THEN (q + 1) * step
        ELSE IF q % 2 = 0 THEN q * step ELSE (q + 1) * step

\* a value stored in an np.float32 array
Float32(r) ==
    LET m == Abs(r)
        v == RoundToStep(m, Float32Step(m, 0))
    IN  IF r < 0 THEN -v ELSE v

\* the maximum taken to be its first argument
MaxFirst(a, b) == a

\* Python's max(a, b)
Max(a, b) == IF a >= b THEN a ELSE b

Zeros(n) == [k \in 1..n |-> 0]

\* Python / numpy indexing of an array of length len with the integer i:
\* the 0-based position read or written, or -1 for IndexError
PyIndex(len, i) ==
    IF 0 <= i /\ i < len THEN i
    ELSE IF -len <= i /\ i < 0 THEN len + i
    ELSE -1

----------------------------------------------------------------------------
(* The host: the sprites it adds and the files it names *)

\* <<object_type, x, y, scale, rotate>> arguments of add
Sprites ==
    { <<0, Fx(10), Fx(10), Fx(1), Fx(0)>>,
      <<1, Fx(-5), Fx(0), Fx(2), Fx(90)>>,
      <<2, Pow2(24) + 1, Fx(-3), Fx(4), Fx(45)>> }

DrawSprites ==
    { <<0, Fx(10), Fx(10), Fx(1), Fx(0)>>,
      <<1, Fx(-5), Fx(0), Fx(2), Fx(90)>> }

\* indices the host passes to remove; 8 is past the end of every array explored
RemoveArgs == {-1, 0, 1, 2, 8}

NoOp == [name |-> "none", arg |-> <<>>, ret |-> <<>>, err |-> "", calls |-> <<>>]

Call(name, arg, ret, err, calls) ==
    [name |-> name, arg |-> arg, ret |-> ret, err |-> err, calls |-> calls]

----------------------------------------------------------------------------
(* SpriteGroup *)

\* the sprite stored at 0-based index j of the group's arrays
Entry(ots, trs, j) ==
    <<ots[j + 1], trs[4 * j + 1], trs[4 * j + 2], trs[4 * j + 3], trs[4 * j + 4]>>

\* what the arrays hold of a sprite once it is written
Stored(s) ==
    <<StoreUint32(s[1]), Float32(s[2]), Float32(s[3]), Float32(s[4]), Float32(s[5])>>

\* SpriteGroup.__init__
GroupInit ==
    /\ object_types = Zeros(1)
    /\ transforms = Zeros(4)
    /\ size = 0
    /\ capacity = 1
    /\ has_id = FALSE
    /\ id = 0

\* the resize branch of add: the arrays and capacity after "resize if needed"
GrownTypes ==
    IF size >= capacity
    THEN [k \in 1..(capacity * 2) |-> IF k <= size THEN object_types[k] ELSE 0]
    ELSE object_types

\* the resize copying one float per sprite instead of four
GrownTransformsShort ==
    IF size >= capacity
    THEN [k \in 1..(capacity * 8) |-> IF k <= size THEN transforms[k] ELSE 0]
    ELSE transforms

GrownTransforms ==
    IF size >= capacity
    THEN [k \in 1..(capacity * 8) |-> IF k <= size * 4 THEN transforms[k] ELSE 0]
    ELSE transforms

GrownCapacity == Len(GrownTypes)

\* "position to insert at"
InsertAt == size

\* add returning the new size instead of the index written
AddReturnNewSize(i) == i + 1

\* the value add returns after inserting at i
AddReturn(i) == i

\* SpriteGroup.add(object_type, x, y, scale, rotate)
Add(s) ==
    LET i == InsertAt
        p == PyIndex(Len(GrownTypes), i)
        q == [k \in 0..3 |-> PyIndex(Len(GrownTransforms), 4 * i + k)]
    IN  /\ capacity' = GrownCapacity
        /\ IF p = -1
           THEN \* IndexError at the first store; the resize, if any, is kept
                /\ object_types' = GrownTypes
                /\ transforms' = GrownTransforms
                /\ size' = size
                /\ op' = Call("add", s, <<>>, "IndexError", <<>>)
           ELSE /\ object_types' = [GrownTypes EXCEPT ![p + 1] = StoreUint32(s[1])]
                /\ transforms' =
                      [GrownTransforms EXCEPT ![q[0] + 1] = Float32(s[2]),
                                              ![q[1] + 1] = Float32(s[3]),
                                              ![q[2] + 1] = Float32(s[4]),
                                              ![q[3] + 1] = Float32(s[5])]
                /\ size' = size + 1
                /\ op' = Call("add", s, AddReturn(i), "", <<>>)
        /\ UNCHANGED <<has_id, id, variant, registryVars, gpuVars, setups>>

\* np.delete(arr, i) for an integer i: a copy without position i
NpDelete(arr, i) ==
    LET p == PyIndex(Len(arr), i)
    IN  [k \in 1..(Len(arr) - 1) |-> IF k <= p THEN arr[k] ELSE arr[k + 1]]

\* remove keeping the result of np.delete
RemovedTypesAssigned(i) == NpDelete(object_types, i)

\* what remove leaves in _object_types and _transforms: the results of both
\* np.delete calls are dropped, the arrays stay as they are
RemovedTypes(i) == object_types

RemovedTransforms(i) == transforms

\* SpriteGroup.remove(i)
Remove(i) ==
    /\ IF PyIndex(Len(object_types), i) = -1
       THEN \* np.delete raises IndexError before anything is assigned
            /\ UNCHANGED <<object_types, transforms, size>>
            /\ op' = Call("remove", i, <<>>, "IndexError", <<>>)
       ELSE /\ object_types' = RemovedTypes(i)
            /\ transforms' = RemovedTransforms(i)
            /\ size' = size - 1
            /\ op' = Call("remove", i, <<>>, "", <<>>)
    /\ UNCHANGED <<capacity, has_id, id, variant, registryVars, gpuVars, setups>>

----------------------------------------------------------------------------
(* The files the host names, as PIL's Image.open finds them *)

Files == {"a.png", "b.png", "c.png", "bad.png"}

DrawFiles == {"a.png", "b.png", "bad.png"}

\* Image.open(filename) succeeds
Decodable(f) == f # "bad.png"

\* img.size of a decodable file, <<w, h>> in pixels (read only once
\* Image.open has succeeded)
ImageSize(f) ==
    IF f = "a.png" THEN <<64, 32>>
    ELSE IF f = "b.png" THEN <<32, 32>>
    ELSE <<5, 48>>

\* glfw.get_framebuffer_size(window) of the fixed-size window
WindowWidth == 1280

WindowHeight == 800

----------------------------------------------------------------------------
(* Renderer: the image registry *)

\* the membership test never finding the name
InHistoryNever(hist, f) == FALSE

\* filename in self._image_history
InHistory(hist, f) == \E k \in 1..Len(hist) : hist[k].name = f

\* self._image_history[filename]
HistoryGet(hist, f) == hist[CHOOSE k \in 1..Len(hist) : hist[k].name = f].handle

\* the handle taken from the number of stored sizes
NewHandleFromSizes(hist) == Len(image_sizes) \div 2

\* the handle load_image gives a name it has not seen
NewHandle(hist) == Len(hist)

\* the pair load_image appends to _image_sizes for an image of w x h pixels
SizeEntry(v, w, h) ==
    IF v = "modern" THEN <<TrueDivTwo(w), TrueDivTwo(h)>> ELSE <<Fx(w), Fx(h)>>

\* Renderer.setup: the fields it initialises
RendererInit ==
    /\ variant \in {"azdo", "modern"}
    /\ image_history = <<>>
    /\ image_sizes = <<>>
    /\ max_image_w = 0
    /\ max_image_h = 0
    /\ image_gl_id = 0
    /\ sprite_groups = <<>>
    /\ global_info = <<>>
    /\ dummy_vao = 0
    /\ textures = <<>>
    /\ vaos = 0
    /\ buffers = <<>>

\* Renderer.load_image(filename)
LoadImage(f) ==
    /\ IF InHistory(image_history, f)
       THEN /\ op' = Call("load_image", f, HistoryGet(image_history, f), "", <<>>)
            /\ UNCHANGED registryVars
       ELSE LET i == NewHandle(image_history)
                w == ImageSize(f)[1]
                h == ImageSize(f)[2]
            IN  /\ image_history' = Append(image_history, [name |-> f, handle |-> i])
                /\ IF Decodable(f)
                   THEN /\ image_sizes' = image_sizes \o SizeEntry(variant, w, h)
                        /\ max_image_w' = Max(w, max_image_w)
                        /\ max_image_h' = Max(h, max_image_h)
                        /\ op' = Call("load_image", f, i, "", <<>>)
                   ELSE \* Image.open raises after the handle was entered
                        /\ UNCHANGED <<image_sizes, max_image_w, max_image_h>>
                        /\ op' = Call("load_image", f, <<>>, "DecodeError", <<>>)
    /\ UNCHANGED <<groupVars, variant, gpuVars, setups>>

\* the items of the history that after_setup's loop gets through: all of
\* them, or those before the first file Image.open fails on
RECURSIVE UploadedItems(_)
UploadedItems(hist) ==
    IF hist = <<>> THEN <<>>
    ELSE IF Decodable(Head(hist).name)
         THEN <<Head(hist)>> \o UploadedItems(Tail(hist))
         ELSE <<>>

\* the depth argument of glTexSubImage3D
SubImageDepth(v) == IF v = "modern" THEN 1 ELSE 0

\* the glTexSubImage3D call made for one item of the history
SubImage(v, item) ==
    [xoffset |-> 0, yoffset |-> 0, layer |-> item.handle,
     w |-> ImageSize(item.name)[1], h |-> ImageSize(item.name)[2],
     depth |-> SubImageDepth(v)]

\* the texture after_setup creates: glTexStorage3D and the uploads
AtlasTexture(v, hist, mw, mh) ==
    [w |-> mw, h |-> mh, layers |-> Len(hist),
     uploads |-> [k \in 1..Len(UploadedItems(hist)) |->
                     SubImage(v, UploadedItems(hist)[k])]]

\* after_setup creates the atlas texture
CreatesAtlas(hist) == Len(hist) > 0

\* after_setup runs to its end: no Image.open in its loop raises
SetupCompletes(hist) == Len(UploadedItems(hist)) = Len(hist)

\* np.array((w / 2, h / 2, max_w / 2, max_h / 2), dtype = np.uint32)
GlobalInfo(mw, mh) ==
    <<AsUint32(TrueDivTwo(WindowWidth)), AsUint32(TrueDivTwo(WindowHeight)),
      AsUint32(TrueDivTwo(mw)), AsUint32(TrueDivTwo(mh))>>

\* Renderer.after_setup(window)
AfterSetup ==
    /\ setups' = setups + 1
    /\ IF CreatesAtlas(image_history)
       THEN /\ image_gl_id' = Len(textures) + 1
            /\ textures' = Append(textures,
                  AtlasTexture(variant, image_history, max_image_w, max_image_h))
       ELSE UNCHANGED <<image_gl_id, textures>>
    /\ IF SetupCompletes(image_history)
       THEN /\ op' = Call("after_setup", <<>>, <<>>, "", <<>>)
            /\ IF variant = "modern"
               THEN /\ dummy_vao' = vaos + 1
                    /\ vaos' = vaos + 1
                    /\ global_info' = GlobalInfo(max_image_w, max_image_h)
               ELSE UNCHANGED <<dummy_vao, vaos, global_info>>
       ELSE /\ op' = Call("after_setup", <<>>, <<>>, "DecodeError", <<>>)
            /\ UNCHANGED <<dummy_vao, vaos, global_info>>
    /\ UNCHANGED <<groupVars, variant, registryVars, sprite_groups, buffers>>

----------------------------------------------------------------------------
(* Renderer: sprite groups (modern backend only; the azdo Renderer has     *)
(* neither register_sprite_group nor draw_sprite_group)                    *)

\* the first sprite index in 0..n-1 whose image size lookup raises
\* IndexError, or n when there is none
RECURSIVE FirstBadSprite(_, _, _, _)
FirstBadSprite(sizes, ots, n, j) ==
    IF j >= n THEN n
    ELSE IF PyIndex(Len(sizes), 2 * ots[j + 1] + 1) = -1 THEN j
    ELSE FirstBadSprite(sizes, ots, n, j + 1)

\* the image size read at object_type instead of 2 * object_type
InstanceRecordNoStride(sizes, ots, trs, j) ==
    LET object_type == ots[j + 1]
    IN  <<Float32(sizes[object_type + 1]),
          Float32(sizes[object_type + 2]),
          Float32(Fx(object_type)),
          Float32(trs[4 * j + 1]),
          Float32(trs[4 * j + 2]),
          Float32(trs[4 * j + 3]),
          Float32(trs[4 * j + 4])>>

\* the 7 floats register_sprite_group writes for sprite j
InstanceRecord(sizes, ots, trs, j) ==
    LET object_type == ots[j + 1]
    IN  <<Float32(sizes[2 * object_type + 1]),
          Float32(sizes[2 * object_type + 2]),
          Float32(Fx(object_type)),
          Float32(trs[4 * j + 1]),
          Float32(trs[4 * j + 2]),
          Float32(trs[4 * j + 3]),
          Float32(trs[4 * j + 4])>>

\* the buffer register_sprite_group uploads: np.zeros(7 * size) filled in
InstanceBuffer(sizes, ots, trs, n) ==
    [k \in 1..(7 * n) |->
        InstanceRecord(sizes, ots, trs, (k - 1) \div 7)[((k - 1) % 7) + 1]]

\* register_sprite_group refusing every call made before after_setup
RegisterErrorBeforeSetup(v, sizes, ots, n) ==
    IF setups = 0 THEN "RuntimeError"
    ELSE IF v # "modern" THEN "AttributeError"
    ELSE IF n < 0 THEN "ValueError"
    ELSE IF n > Len(ots) THEN "IndexError"
    ELSE IF FirstBadSprite(sizes, ots, n, 0) < n THEN "IndexError"
    ELSE ""

\* the error register_sprite_group(object_types, transforms, size) raises,
\* or "" when it returns
RegisterError(v, sizes, ots, n) ==
    IF v # "modern" THEN "AttributeError"
    ELSE IF n < 0 THEN "ValueError"
    ELSE IF n > Len(ots) THEN "IndexError"
    ELSE IF FirstBadSprite(sizes, ots, n, 0) < n THEN "IndexError"
    ELSE ""

\* register_sprite_group putting the new group in front of the list and
\* returning 0
InscribeInFront ==
    LET e == RegisterError(variant, image_sizes, object_types, size)
        VAO == vaos + 1
        VBO == Len(buffers) + 1
    IN  /\ IF e # ""
           THEN /\ op' = Call("inscribe", <<object_types, transforms, size>>,
                              <<>>, e, <<>>)
                /\ UNCHANGED <<has_id, id, vaos, buffers, sprite_groups>>
           ELSE /\ vaos' = VAO
                /\ buffers' = Append(buffers,
                      InstanceBuffer(image_sizes, object_types, transforms, size))
                /\ sprite_groups' = <<<<VAO, VBO, size>>>> \o sprite_groups
                /\ has_id' = TRUE
                /\ id' = 0
                /\ op' = Call("inscribe", <<object_types, transforms, size>>,
                              0, "", <<>>)
        /\ UNCHANGED <<object_types, transforms, size, capacity, variant,
                       registryVars, image_gl_id, global_info, dummy_vao,
                       textures, setups>>

\* SpriteGroup.inscribe(), through Renderer.register_sprite_group
Inscribe ==
    LET e == RegisterError(variant, image_sizes, object_types, size)
        VAO == vaos + 1
        VBO == Len(buffers) + 1
        new_id == Len(sprite_groups)
    IN  /\ IF e # ""
           THEN /\ op' = Call("inscribe", <<object_types, transforms, size>>,
                              <<>>, e, <<>>)
                /\ UNCHANGED <<has_id, id, vaos, buffers, sprite_groups>>
           ELSE /\ vaos' = VAO
                /\ buffers' = Append(buffers,
                      InstanceBuffer(image_sizes, object_types, transforms, size))
                /\ sprite_groups' = Append(sprite_groups, <<VAO, VBO, size>>)
                /\ has_id' = TRUE
                /\ id' = new_id
                /\ op' = Call("inscribe", <<object_types, transforms, size>>,
                              new_id, "", <<>>)
        /\ UNCHANGED <<object_types, transforms, size, capacity, variant,
                       registryVars, image_gl_id, global_info, dummy_vao,
                       textures, setups>>

\* the instance count taken from the group's present _size
DrawInstancesLive(group) == size

\* the instance count draw_sprite_group passes to glDrawArraysInstanced
DrawInstances(group) == group[3]

\* the GL draw calls of draw_sprite_group(id), id a valid list index
DrawCalls(groups, i) ==
    LET group == groups[PyIndex(Len(groups), i) + 1]
    IN  << [vao |-> group[1], mode |-> "GL_TRIANGLE_FAN", first |-> 0,
            count |-> 4, instances |-> DrawInstances(group)] >>

\* the error SpriteGroup.draw() raises, or "" when it returns
DrawError(v, groups, hasid, i) ==
    IF ~hasid THEN "AttributeError"
    ELSE IF v # "modern" THEN "AttributeError"
    ELSE IF PyIndex(Len(groups), i) = -1 THEN "IndexError"
    ELSE ""

\* SpriteGroup.draw(), through Renderer.draw_sprite_group
Draw ==
    LET e == DrawError(variant, sprite_groups, has_id, id)
    IN  /\ op' = IF e # ""
                 THEN Call("draw", <<>>, <<>>, e, <<>>)
                 ELSE Call("draw", id, <<>>, "", DrawCalls(sprite_groups, id))
        /\ UNCHANGED <<groupVars, variant, registryVars, gpuVars, setups>>

\* Renderer.draw_sprite_group(i) called with a number the host picked
DrawSpriteGroup(i) ==
    LET e == DrawError(variant, sprite_groups, TRUE, i)
    IN  /\ op' = IF e # ""
                 THEN Call("draw_sprite_group", i, <<>>, e, <<>>)
                 ELSE Call("draw_sprite_group", i, <<>>, "",
                           DrawCalls(sprite_groups, i))
        /\ UNCHANGED <<groupVars, variant, registryVars, gpuVars, setups>>

----------------------------------------------------------------------------
(* Specifications *)

BACKEND_AZDO_OGL == 0
BACKEND_MODERN_OGL == 1
RENDER_BEHAVIOR_EACH_FRAME == 0
RENDER_BEHAVIOR_CONSERVATIVE == 1

Backends == {BACKEND_AZDO_OGL, BACKEND_MODERN_OGL}
Behaviors == {RENDER_BEHAVIOR_EACH_FRAME, RENDER_BEHAVIOR_CONSERVATIVE}

NoEscape == [err |-> "", at |-> ""]

\* the Invocation the host holds once __init__ has returned
InvocationBuilt ==
    /\ pc = "host"
    /\ backend = IF variant = "azdo" THEN BACKEND_AZDO_OGL ELSE BACKEND_MODERN_OGL
    /\ behavior = RENDER_BEHAVIOR_EACH_FRAME
    /\ renderers = 1
    /\ setup_calls = 1
    /\ should_close = FALSE
    /\ key_escape = FALSE
    /\ drawing = FALSE
    /\ frame = <<>>
    /\ caught = FALSE
    /\ escaped = NoEscape

Init ==
    /\ GroupInit
    /\ RendererInit
    /\ op = NoOp
    /\ setups = 0
    /\ addlog = <<>>
    /\ addbase = 0
    /\ firstcalls = <<>>
    /\ inscribed = [size |-> 0, records |-> <<>>]
    /\ InvocationBuilt

\* the host notes each add call that returned: <<index returned, sprite>>
LogAdd ==
    addlog' = IF op'.err = "" THEN Append(addlog, <<op'.ret, op'.arg>>) ELSE addlog

\* the host notes the first load_image call made with each name
LogLoad ==
    firstcalls' =
        IF \E k \in 1..Len(firstcalls) : firstcalls[k].name = op'.arg
        THEN firstcalls
        ELSE Append(firstcalls, [name |-> op'.arg, ret |-> op'.ret, err |-> op'.err])

\* the host notes the size it inscribed and the records the call uploaded
LogInscribe ==
    inscribed' =
        IF op'.err = ""
        THEN [size |-> size, records |-> buffers'[Len(buffers')]]
        ELSE inscribed

AddStep ==
    \E s \in Sprites :
        /\ size < MaxSize
        /\ Add(s)
        /\ LogAdd
        /\ UNCHANGED <<addbase, firstcalls, inscribed>>
        /\ UNCHANGED runVars

\* a remove call starts the host's notes of add calls afresh
RemoveStep ==
    \E i \in RemoveArgs :
        /\ size > -MaxNegSize
        /\ Remove(i)
        /\ addlog' = <<>>
        /\ addbase' = size'
        /\ UNCHANGED <<firstcalls, inscribed>>
        /\ UNCHANGED runVars

LoadImageStep ==
    \E f \in Files :
        /\ InHistory(image_history, f) \/ Len(image_history) < MaxImages
        /\ LoadImage(f)
        /\ LogLoad
        /\ UNCHANGED <<addlog, addbase, inscribed>>
        /\ UNCHANGED runVars

AfterSetupStep ==
    /\ setups < MaxSetups
    /\ AfterSetup
    /\ UNCHANGED noteVars
    /\ UNCHANGED runVars

DrawAddStep ==
    \E s \in DrawSprites :
        /\ size < MaxDrawSize
        /\ Add(s)
        /\ UNCHANGED noteVars
        /\ UNCHANGED runVars

DrawRemoveStep ==
    \E i \in {0} :
        /\ size > 0
        /\ Remove(i)
        /\ UNCHANGED noteVars
        /\ UNCHANGED runVars

DrawLoadImageStep ==
    \E f \in DrawFiles :
        /\ InHistory(image_history, f) \/ Len(image_history) < MaxDrawImages
        /\ LoadImage(f)
        /\ LogLoad
        /\ UNCHANGED <<addlog, addbase, inscribed>>
        /\ UNCHANGED runVars

\* the host inscribes its group once: it calls inscribe until it returns
InscribeStep ==
    /\ ~has_id
    /\ Inscribe
    /\ LogInscribe
    /\ UNCHANGED <<addlog, addbase, firstcalls>>
    /\ UNCHANGED runVars

DrawStep ==
    /\ Draw
    /\ UNCHANGED noteVars
    /\ UNCHANGED runVars

\* the sprite group on its own
NextGroup == AddStep \/ RemoveStep

SpecGroup == Init /\ [][NextGroup]_vars

\* the image registry and the atlas upload
NextRegistry == LoadImageStep \/ AfterSetupStep

SpecRegistry == Init /\ [][NextRegistry]_vars

\* a host that loads images, fills a group, inscribes and draws it
Next ==
    \/ DrawLoadImageStep
    \/ DrawAddStep
    \/ DrawRemoveStep
    \/ InscribeStep
    \/ DrawStep

Spec == Init /\ [][Next]_vars

\* the host loads the one image its sprites use
HandleLoadStep ==
    /\ image_history = <<>>
    /\ LoadImage("a.png")
    /\ LogLoad
    /\ UNCHANGED <<addlog, addbase, inscribed>>
    /\ UNCHANGED runVars

\* the host adds one sprite of that image before each inscribe call
HandleAddStep ==
    /\ image_history # <<>>
    /\ size <= Len(sprite_groups)
    /\ Add(<<0, Fx(size), Fx(0), Fx(1), Fx(0)>>)
    /\ UNCHANGED noteVars
    /\ UNCHANGED runVars

\* the host calls inscribe, on a group it has inscribed before too
HandleInscribeStep ==
    /\ Len(sprite_groups) < MaxGroups
    /\ Inscribe
    /\ LogInscribe
    /\ UNCHANGED <<addlog, addbase, firstcalls>>
    /\ UNCHANGED runVars

\* the host passes a number of its own to draw_sprite_group
DrawSpriteGroupStep ==
    \E i \in -1..Len(sprite_groups) :
        /\ DrawSpriteGroup(i)
        /\ UNCHANGED noteVars
        /\ UNCHANGED runVars

\* a host that inscribes one group repeatedly and draws by handle
NextHandles ==
    \/ HandleLoadStep
    \/ HandleAddStep
    \/ HandleInscribeStep
    \/ DrawSpriteGroupStep
    \/ DrawStep

SpecHandles == Init /\ [][NextHandles]_vars

----------------------------------------------------------------------------
(* Invocation: construction and the main loop *)

\* the files the hooks of the host load
RunFiles == {"a.png", "b.png", "bad.png"}

\* the Renderer objects __init__ constructs, in order: each of its two if
\* statements constructs one and calls its setup
RenderersCreated(b, h) ==
    (IF b = BACKEND_AZDO_OGL /\ h = RENDER_BEHAVIOR_EACH_FRAME
     THEN <<"azdo">> ELSE <<>>)
    \o (IF b = BACKEND_MODERN_OGL /\ h = RENDER_BEHAVIOR_EACH_FRAME
        THEN <<"modern">> ELSE <<>>)

\* Invocation.__init__ up to the call of on_setup; with no Renderer
\* constructed the _renderer slot stays unset ("none")
Construct ==
    /\ pc = "new"
    /\ \E b \in Backends, h \in Behaviors :
          LET made == RenderersCreated(b, h)
          IN  /\ backend' = b
              /\ behavior' = h
              /\ variant' = IF made = <<>> THEN "none" ELSE made[Len(made)]
              /\ renderers' = renderers + Len(made)
              /\ setup_calls' = setup_calls + Len(made)
              /\ op' = Call("__init__", <<b, h>>, <<>>, "", <<>>)
    /\ pc' = "on_setup"
    /\ UNCHANGED <<groupVars, registryVars, gpuVars, setups, noteVars,
                   loopVars, caught, escaped>>

\* an exception raised in a hook leaves __init__ or run() unless the hook
\* itself handled it: neither has a try statement
PropagatesNever(err, handled) == FALSE

Propagates(err, handled) == err # "" /\ ~handled

\* the hook's call is over: the hook goes on, or its exception leaves
HookCallDone(next) ==
    /\ \E c \in BOOLEAN : caught' = (op'.err # "" /\ c)
    /\ IF Propagates(op'.err, caught')
       THEN /\ pc' = "aborted"
            /\ escaped' = [err |-> op'.err, at |-> pc]
       ELSE /\ pc' = next
            /\ escaped' = escaped

\* on_setup of the host loads an image
OnSetupLoad ==
    /\ pc = "on_setup"
    /\ variant # "none"
    /\ \E f \in RunFiles :
          /\ ~InHistory(image_history, f)
          /\ LoadImage(f)
    /\ LogLoad
    /\ HookCallDone("on_setup")
    /\ UNCHANGED <<addlog, addbase, inscribed, configVars, loopVars>>

\* on_setup of the host adds a sprite to its group
OnSetupAdd ==
    /\ pc = "on_setup"
    /\ variant # "none"
    /\ size <= Len(sprite_groups)
    /\ Add(<<0, Fx(size), Fx(0), Fx(1), Fx(0)>>)
    /\ HookCallDone("on_setup")
    /\ UNCHANGED <<noteVars, configVars, loopVars>>

\* on_setup of the host inscribes its group
OnSetupInscribe ==
    /\ pc = "on_setup"
    /\ variant # "none"
    /\ ~has_id
    /\ Inscribe
    /\ LogInscribe
    /\ HookCallDone("on_setup")
    /\ UNCHANGED <<addlog, addbase, firstcalls, configVars, loopVars>>

\* on_setup returns and __init__ calls self._renderer.after_setup
CallAfterSetup ==
    /\ pc = "on_setup"
    /\ IF variant = "none"
       THEN /\ op' = Call("after_setup", <<>>, <<>>, "AttributeError", <<>>)
            /\ UNCHANGED <<groupVars, variant, registryVars, gpuVars, setups>>
       ELSE AfterSetup
    /\ caught' = FALSE
    /\ IF op'.err # ""
       THEN /\ pc' = "aborted"
            /\ escaped' = [err |-> op'.err, at |-> "after_setup"]
       ELSE /\ pc' = "ready"
            /\ escaped' = escaped
    /\ UNCHANGED <<noteVars, configVars, loopVars>>

\* the host calls run()
Run ==
    /\ pc = "ready"
    /\ pc' = "while"
    /\ op' = Call("run", <<>>, <<>>, "", <<>>)
    /\ UNCHANGED <<groupVars, variant, registryVars, gpuVars, setups, noteVars,
                   configVars, loopVars, caught, escaped>>

\* the loop of run() goes on whatever the flag
LoopGoesOnAlways(flag) == TRUE

\* the condition of the loop of run()
LoopGoesOn(flag) == ~flag

\* the statements of the loop body are executed in the order of the source
NextStatementDrawFirst(p) ==
    CASE p = "get_key" -> "poll_events"
      [] p = "poll_events" -> "on_update"
      [] p = "on_update" -> "on_draw"
      [] p = "on_draw" -> "start_drawing"
      [] p = "start_drawing" -> "finish_drawing"
      [] p = "finish_drawing" -> "while"

NextStatement(p) ==
    CASE p = "get_key" -> "poll_events"
      [] p = "poll_events" -> "on_update"
      [] p = "on_update" -> "start_drawing"
      [] p = "start_drawing" -> "on_draw"
      [] p = "on_draw" -> "finish_drawing"
      [] p = "finish_drawing" -> "while"

\* while (not glfw.window_should_close(self._window))
WhileCheck ==
    /\ pc = "while"
    /\ pc' = IF LoopGoesOn(should_close) THEN "get_key" ELSE "returned"
    /\ frame' = <<"window_should_close">>
    /\ op' = Call("window_should_close", <<>>, should_close, "", <<>>)
    /\ UNCHANGED <<groupVars, variant, registryVars, gpuVars, setups, noteVars,
                   configVars, should_close, key_escape, drawing, caught, escaped>>

\* if glfw.get_key(window, GLFW_KEY_ESCAPE) == GLFW_PRESS:
\*     glfw.set_window_should_close(window, GLFW_TRUE)
GetKey ==
    /\ pc = "get_key"
    /\ pc' = NextStatement(pc)
    /\ should_close' = (should_close \/ key_escape)
    /\ frame' = Append(frame, "get_key")
    /\ op' = Call("get_key", <<>>, key_escape, "", <<>>)
    /\ UNCHANGED <<groupVars, variant, registryVars, gpuVars, setups, noteVars,
                   configVars, key_escape, drawing, caught, escaped>>

\* glfw.poll_events(): the events waiting are processed; a key event sets
\* the state get_key reports, a close event sets the should-close flag
PollEvents ==
    /\ pc = "poll_events"
    /\ pc' = NextStatement(pc)
    /\ \E k \in BOOLEAN, c \in BOOLEAN :
          /\ key_escape' = k
          /\ should_close' = (should_close \/ c)
    /\ frame' = Append(frame, "poll_events")
    /\ op' = Call("poll_events", <<>>, <<>>, "", <<>>)
    /\ UNCHANGED <<groupVars, variant, registryVars, gpuVars, setups, noteVars,
                   configVars, drawing, caught, escaped>>

\* on_update of the host makes no call
OnUpdateIdle ==
    /\ pc = "on_update"
    /\ pc' = NextStatement(pc)
    /\ frame' = Append(frame, "on_update")
    /\ op' = Call("on_update", <<>>, <<>>, "", <<>>)
    /\ caught' = FALSE
    /\ UNCHANGED <<groupVars, variant, registryVars, gpuVars, setups, noteVars,
                   configVars, should_close, key_escape, drawing, escaped>>

\* on_update of the host loads an image
OnUpdateLoad ==
    /\ pc = "on_update"
    /\ \E f \in RunFiles : LoadImage(f)
    /\ LogLoad
    /\ frame' = Append(frame, "on_update")
    /\ HookCallDone(NextStatement(pc))
    /\ UNCHANGED <<addlog, addbase, inscribed, configVars,
                   should_close, key_escape, drawing>>

\* Renderer.start_drawing()
StartDrawing ==
    /\ pc = "start_drawing"
    /\ pc' = NextStatement(pc)
    /\ drawing' = TRUE
    /\ frame' = Append(frame, "start_drawing")
    /\ op' = Call("start_drawing", <<>>, <<>>, "", <<"glClear">>)
    /\ UNCHANGED <<groupVars, variant, registryVars, gpuVars, setups, noteVars,
                   configVars, should_close, key_escape, caught, escaped>>

\* on_draw of the host makes no call
OnDrawIdle ==
    /\ pc = "on_draw"
    /\ pc' = NextStatement(pc)
    /\ frame' = Append(frame, "on_draw")
    /\ op' = Call("on_draw", <<>>, <<>>, "", <<>>)
    /\ caught' = FALSE
    /\ UNCHANGED <<groupVars, variant, registryVars, gpuVars, setups, noteVars,
                   configVars, should_close, key_escape, drawing, escaped>>

\* on_draw of the host draws its group
OnDrawDraw ==
    /\ pc = "on_draw"
    /\ Draw
    /\ frame' = Append(frame, "on_draw")
    /\ HookCallDone(NextStatement(pc))
    /\ UNCHANGED <<noteVars, configVars, should_close, key_escape, drawing>>

\* Renderer.finish_drawing(window)
FinishDrawing ==
    /\ pc = "finish_drawing"
    /\ pc' = NextStatement(pc)
    /\ drawing' = FALSE
    /\ frame' = Append(frame, "finish_drawing")
    /\ op' = Call("finish_drawing", <<>>, <<>>, "", <<"glFlush">>)
    /\ UNCHANGED <<groupVars, variant, registryVars, gpuVars, setups, noteVars,
                   configVars, should_close, key_escape, caught, escaped>>


----------------------------------------------------------------------------
(* Specifications of the Invocation *)

\* before Invocation(...) is called: no Renderer exists yet; the fields
\* shown are those Renderer.setup will create
InitRun ==
    /\ GroupInit
    /\ variant = "none"
    /\ image_history = <<>>
    /\ image_sizes = <<>>
    /\ max_image_w = 0
    /\ max_image_h = 0
    /\ image_gl_id = 0
    /\ sprite_groups = <<>>
    /\ global_info = <<>>
    /\ dummy_vao = 0
    /\ textures = <<>>
    /\ vaos = 0
    /\ buffers = <<>>
    /\ op = NoOp
    /\ setups = 0
    /\ addlog = <<>>
    /\ addbase = 0
    /\ firstcalls = <<>>
    /\ inscribed = [size |-> 0, records |-> <<>>]
    /\ pc = "new"
    /\ backend = BACKEND_AZDO_OGL
    /\ behavior = RENDER_BEHAVIOR_EACH_FRAME
    /\ renderers = 0
    /\ setup_calls = 0
    /\ should_close = FALSE
    /\ key_escape = FALSE
    /\ drawing = FALSE
    /\ frame = <<>>
    /\ caught = FALSE
    /\ escaped = NoEscape

\* a host that constructs an Invocation and runs it
NextRun ==
    \/ Construct
    \/ OnSetupLoad
    \/ OnSetupAdd
    \/ OnSetupInscribe
    \/ CallAfterSetup
    \/ Run
    \/ WhileCheck
    \/ GetKey
    \/ PollEvents
    \/ OnUpdateIdle
    \/ OnUpdateLoad
    \/ StartDrawing
    \/ OnDrawIdle
    \/ OnDrawDraw
    \/ FinishDrawing

SpecRun == InitRun /\ [][NextRun]_vars

\* every statement of a sequential program that is reached is executed,
\* and the hooks of the host return
SpecRunFair == SpecRun /\ WF_vars(NextRun)

----------------------------------------------------------------------------
(* Properties of the sprite group, checked under SpecGroup *)

\* the live sprites of the group before and after a step
EntryNow(j) == Entry(object_types, transforms, j)

EntryNext(j) == Entry(object_types', transforms', j)

\* C1: remove(i) with 0 <= i < size leaves size - 1 sprites, the sprites
\* before i where they were and every sprite after i one index lower.
C1_RemoveShiftsDown ==
    [][ (op'.name = "remove" /\ op'.err = "" /\ 0 <= op'.arg /\ op'.arg < size)
        => /\ size' = size - 1
           /\ \A j \in 0..(size' - 1) :
                 EntryNext(j) = IF j < op'.arg THEN EntryNow(j) ELSE EntryNow(j + 1)
      ]_vars

\* C2: starting from an empty group, the add calls made since the last
\* remove returned 0, 1, ..., k-1 in call order, and the sprite of the
\* j-th call is stored at index j.
C2_AddReturnsIndicesInOrder ==
    addbase = 0 =>
        /\ size = Len(addlog)
        /\ \A j \in 1..Len(addlog) :
              /\ addlog[j][1] = j - 1
              /\ EntryNow(j - 1) = Stored(addlog[j][2])

\* three adds on an empty group, across both doublings, the last one rounded
C2_Witness ==
    /\ addbase = 0
    /\ Len(addlog) = 3
    /\ capacity = 4
    /\ addlog[1][2] # addlog[2][2]
    /\ addlog[3][2][2] # Float32(addlog[3][2][2])

\* C3: an add called with size = capacity doubles the capacity and leaves
\* every sprite added before at its index, unchanged.
C3_GrowthKeepsEntries ==
    [][ (op'.name = "add" /\ size = capacity)
        => /\ capacity' = 2 * capacity
           /\ \A j \in 0..(size - 1) : EntryNext(j) = EntryNow(j)
      ]_vars

\* the add that grew the arrays from 2 to 4 sprites
C3_Witness ==
    /\ op.name = "add"
    /\ op.ret = 2
    /\ capacity = 4
    /\ EntryNow(0) # EntryNow(1)
    /\ EntryNow(0) # <<0, 0, 0, 0, 0>>

\* C4: len(_object_types) = capacity, len(_transforms) = 4 * capacity and
\* size <= capacity, whatever add and remove calls were made.
C4_ArrayLengths ==
    /\ Len(object_types) = capacity
    /\ Len(transforms) = 4 * capacity
    /\ size <= capacity

\* a remove that returned, after the arrays had grown
C4_Witness ==
    /\ op.name = "remove"
    /\ op.err = ""
    /\ capacity = 4
    /\ size = 2

----------------------------------------------------------------------------
(* Properties of the image registry and the atlas, checked under          *)
(* SpecRegistry                                                            *)

\* load_image was called with the name f before
Seen(f) == \E k \in 1..Len(firstcalls) : firstcalls[k].name = f

FirstCall(f) == firstcalls[CHOOSE k \in 1..Len(firstcalls) : firstcalls[k].name = f]

\* the registered names whose image was decoded
DecodedNames ==
    {firstcalls[k].name : k \in {j \in 1..Len(firstcalls) : firstcalls[j].err = ""}}

SetMax(S) == IF S = {} THEN 0 ELSE CHOOSE m \in S : \A x \in S : x <= m

TrueMaxW == SetMax({ImageSize(f)[1] : f \in DecodedNames})

TrueMaxH == SetMax({ImageSize(f)[2] : f \in DecodedNames})

\* C5: load_image with a name that is already registered returns the
\* handle of the first call and changes neither the number of registered
\* images, nor the stored sizes, nor max_width / max_height.
C5_ReloadChangesNothing ==
    [][ (op'.name = "load_image" /\ Seen(op'.arg))
        => /\ op'.err = ""
           /\ FirstCall(op'.arg).err = "" => op'.ret = FirstCall(op'.arg).ret
           /\ image_history' = image_history
           /\ image_sizes' = image_sizes
           /\ max_image_w' = max_image_w
           /\ max_image_h' = max_image_h
      ]_vars

\* the first name loaded again, after a second name was registered
C5_Witness ==
    /\ Len(firstcalls) >= 2
    /\ firstcalls[1].err = ""
    /\ op.name = "load_image"
    /\ op.arg = firstcalls[1].name
    /\ op.ret = 0

\* C6: the n distinct names seen hold the handles 0..n-1 in order of their
\* first registration: no two names share a handle, every call that
\* returned gave that handle, and the handle of a name stays what it was.
C6_HandlesInFirstCallOrder ==
    /\ Len(image_history) = Len(firstcalls)
    /\ \A k \in 1..Len(firstcalls) :
          /\ InHistory(image_history, firstcalls[k].name)
          /\ HistoryGet(image_history, firstcalls[k].name) = k - 1
          /\ firstcalls[k].err = "" => firstcalls[k].ret = k - 1
    /\ \A j, k \in 1..Len(image_history) :
          j # k => /\ image_history[j].name # image_history[k].name
                   /\ image_history[j].handle # image_history[k].handle
    /\ (op.name = "load_image" /\ op.err = "")
          => op.ret = HistoryGet(image_history, op.arg)

\* three names registered, then the second one loaded again
C6_Witness ==
    /\ Len(firstcalls) = 3
    /\ op.name = "load_image"
    /\ op.arg = firstcalls[2].name
    /\ op.ret = 1

\* C7: max_width and max_height are the per-axis maxima over the
\* registered images, and with N >= 1 names registered after_setup
\* allocates one array texture of N layers of size (max_width, max_height).
\* N counts the names in _image_history.
C7_AtlasSizedToMaxima ==
    /\ [](max_image_w = TrueMaxW /\ max_image_h = TrueMaxH)
    /\ [][ (op'.name = "after_setup" /\ Len(firstcalls) >= 1)
           => /\ Len(textures') = Len(textures) + 1
              /\ image_gl_id' = Len(textures')
              /\ textures'[image_gl_id'].layers = Len(firstcalls)
              /\ textures'[image_gl_id'].w = TrueMaxW
              /\ textures'[image_gl_id'].h = TrueMaxH
         ]_vars

\* three images whose widest and tallest differ, uploaded
C7_Witness ==
    /\ op.name = "after_setup"
    /\ op.err = ""
    /\ Cardinality(DecodedNames) = 3
    /\ max_image_w = 64
    /\ max_image_h = 48
    /\ textures[image_gl_id].layers = 3
    /\ textures[image_gl_id].w = 64
    /\ textures[image_gl_id].h = 48

\* C10: an after_setup call that follows another, with no image registered
\* in between, allocates no texture and uploads no layer.
C10_SecondSetupUploadsNothing ==
    [][ (op.name = "after_setup" /\ op.err = "" /\ op'.name = "after_setup")
        => /\ textures' = textures
           /\ image_gl_id' = image_gl_id
      ]_vars

----------------------------------------------------------------------------
(* Properties of the instance buffer and the draw call, checked under Spec *)

\* the name registered under the handle h
NameOfHandle(h) == firstcalls[h + 1].name

\* the handle h and every handle before it belong to a decoded image
DecodedUpTo(h) ==
    /\ h + 1 <= Len(firstcalls)
    /\ \A k \in 1..(h + 1) : firstcalls[k].err = ""

\* C8: register_sprite_group on a group of size n uploads exactly n records
\* of 7 floats; record j holds the pair the registry stores for
\* object_types[j] (half the image's width and height), object_types[j],
\* and x, y, scale, rotation of sprite j; entries from index n on add
\* nothing.
C8_InstanceRecords ==
    (op.name = "inscribe" /\ op.err = "") =>
        LET ots == op.arg[1]
            trs == op.arg[2]
            n == op.arg[3]
            records == buffers[sprite_groups[op.ret + 1][2]]
        IN  /\ sprite_groups[op.ret + 1][3] = n
            /\ Len(records) = 7 * n
            /\ \A j \in 0..(n - 1) :
                  LET t == ots[j + 1]
                  IN  /\ records[7 * j + 1] = image_sizes[2 * t + 1]
                      /\ records[7 * j + 2] = image_sizes[2 * t + 2]
                      /\ DecodedUpTo(t) =>
                            /\ 2 * records[7 * j + 1] = Fx(ImageSize(NameOfHandle(t))[1])
                            /\ 2 * records[7 * j + 2] = Fx(ImageSize(NameOfHandle(t))[2])
                      /\ records[7 * j + 3] = Fx(t)
                      /\ records[7 * j + 4] = trs[4 * j + 1]
                      /\ records[7 * j + 5] = trs[4 * j + 2]
                      /\ records[7 * j + 6] = trs[4 * j + 3]
                      /\ records[7 * j + 7] = trs[4 * j + 4]

\* two sprites of two images of different sizes, inscribed from arrays that
\* hold unused entries
C8_Witness ==
    /\ op.name = "inscribe"
    /\ op.err = ""
    /\ op.arg[3] = 2
    /\ Len(op.arg[1]) > 2
    /\ op.arg[1][1] = 1
    /\ op.arg[1][2] = 0
    /\ DecodedUpTo(1)
    /\ Len(inscribed.records) = 14

\* C9: a draw of an inscribed group issues one instanced draw call of 4
\* vertices and as many instances as the group held when it was inscribed;
\* add and remove calls made since change neither that count nor the
\* records uploaded.
C9_DrawUsesInscribedSnapshot ==
    /\ has_id =>
          /\ sprite_groups[id + 1][3] = inscribed.size
          /\ buffers[sprite_groups[id + 1][2]] = inscribed.records
    /\ (op.name = "draw" /\ op.err = "") =>
          /\ has_id
          /\ Len(op.calls) = 1
          /\ op.calls[1].vao = sprite_groups[id + 1][1]
          /\ op.calls[1].count = 4
          /\ op.calls[1].instances = inscribed.size

\* a draw of a group inscribed with two sprites and emptied since
C9_Witness ==
    /\ op.name = "draw"
    /\ op.err = ""
    /\ inscribed.size = 2
    /\ size = 0
    /\ op.calls[1].instances = 2

----------------------------------------------------------------------------
(* Further properties of the sprite group, checked under SpecGroup *)

\* C18: remove(i) with i >= size, on an empty group too, fails with an
\* error and leaves size and the stored entries as they were.
C18_RemovePastSizeFails ==
    [][ (op'.name = "remove" /\ op'.arg >= size)
        => /\ op'.err # ""
           /\ size' = size
           /\ object_types' = object_types
           /\ transforms' = transforms
      ]_vars

----------------------------------------------------------------------------
(* The two backends compared, checked under Spec *)

\* C16: a call the modern backend accepts is accepted, with the same handle
\* returned, by the azdo backend: whichever backend is in use, inscribe
\* returns exactly when the modern backend would, with the next group handle.
C16_SameContract ==
    op.name = "inscribe" =>
        /\ op.err = "" <=> RegisterError("modern", image_sizes, op.arg[1], op.arg[3]) = ""
        /\ op.err = "" => op.ret = Len(sprite_groups) - 1

----------------------------------------------------------------------------
(* Group handles, checked under SpecHandles *)

\* C12: drawing with a group handle the backend never returned (a negative
\* number, a number >= the number of registered groups, or draw() on a group
\* never inscribed) raises an error and issues no draw call.
C12_UnknownHandleRejected ==
    /\ (op.name = "draw_sprite_group"
            /\ (op.arg < 0 \/ op.arg >= Len(sprite_groups)))
        => (op.err # "" /\ op.calls = <<>>)
    /\ (op.name = "draw" /\ ~has_id)
        => (op.err # "" /\ op.calls = <<>>)

\* C13: an inscribe call on a group that already has a handle registers no
\* further backend group and leaves the group's handle as it was.
C13_InscribeOnce ==
    [][ (op'.name = "inscribe" /\ has_id)
        => (sprite_groups' = sprite_groups /\ id' = id) ]_vars

----------------------------------------------------------------------------
(* Construction and the main loop, checked under SpecRun *)

\* C11 as stated: an inscribe call made before after_setup has run raises
\* an error and registers no group.
C11_InscribeBeforeAfterSetupRejected ==
    (op.name = "inscribe" /\ setups = 0)
        => (op.err # "" /\ sprite_groups = <<>>)

\* every live sprite of the group names an image load_image has decoded
SpritesNameLoadedImages ==
    \A j \in 1..size : object_types[j] < Len(image_sizes) \div 2

\* C11, amended: with the modern backend an inscribe call made before
\* after_setup has run, from on_setup, is accepted when the group's sprites
\* name loaded images: it registers the group at its current size and
\* returns the group's handle.
C11_InscribeBeforeAfterSetupRegisters ==
    (op.name = "inscribe" /\ setups = 0 /\ variant = "modern"
            /\ SpritesNameLoadedImages)
        => /\ op.err = ""
           /\ has_id
           /\ op.ret = id
           /\ Len(sprite_groups) = id + 1
           /\ sprite_groups[id + 1][3] = size

C11_Witness ==
    /\ op.name = "inscribe"
    /\ pc = "on_setup"
    /\ setups = 0
    /\ op.err = ""
    /\ size >= 1

\* C17: whatever backend and behavior are passed, once __init__ is past its
\* backend selection exactly one Renderer has been constructed and its setup
\* called exactly once.
C17_OneBackendPerConfiguration ==
    pc # "new" => (renderers = 1 /\ setup_calls = 1)

\* C19: a decode error raised by load_image in on_setup, unless the hook
\* itself handles it, leaves __init__ as an exception; from then on
\* after_setup is never called and no iteration of the loop is started.
C19_DecodeErrorAbortsSetup ==
    /\ [][ (pc = "on_setup" /\ op'.name = "load_image"
                /\ op'.err = "DecodeError" /\ ~caught')
           => /\ pc' = "aborted"
              /\ escaped' = [err |-> "DecodeError", at |-> "on_setup"] ]_vars
    /\ [](escaped = [err |-> "DecodeError", at |-> "on_setup"]
            => [](pc = "aborted" /\ setups = 0 /\ frame = <<>>))

C19_Witness ==
    /\ pc = "aborted"
    /\ escaped = [err |-> "DecodeError", at |-> "on_setup"]
    /\ op.name = "load_image"

\* the number of layers of the atlas after_setup created
AtlasLayers == textures[Len(textures)].layers

\* C20: once after_setup has uploaded the atlas, a load_image call adds no
\* record, leaves the maxima alone and returns no handle >= the number of
\* layers of the atlas.
C20_RegistryFrozenAfterUpload ==
    [][ (setups > 0 /\ textures # <<>> /\ op'.name = "load_image")
        => /\ registryVars' = registryVars
           /\ op'.err = "" => op'.ret < AtlasLayers ]_vars

\* the statements of one iteration of run(), in the order of the source
RunOrder ==
    <<"window_should_close", "get_key", "poll_events", "on_update",
      "start_drawing", "on_draw", "finish_drawing">>

IsPrefix(s, t) == Len(s) <= Len(t) /\ s = SubSeq(t, 1, Len(s))

\* C14 as stated: in an iteration input is polled, then the close request is
\* checked, then on_update is called: the statement executed just before
\* on_update is the check.
C14_CheckBetweenPollAndUpdate ==
    pc = "on_update" => frame[Len(frame)] = "window_should_close"

\* C14, amended: every iteration of run() executes, in this order, the check
\* of the close request (the loop condition), the Escape key test,
\* poll_events, on_update, start_drawing, on_draw, finish_drawing;
\* start_drawing and finish_drawing alternate beginning with start_drawing,
\* and on_draw with its draw calls runs between the two.
C14_IterationOrder ==
    /\ IsPrefix(frame, RunOrder)
    /\ (pc = "while" /\ frame # <<>>) => frame = RunOrder
    /\ drawing <=> (frame # <<>>
                    /\ frame[Len(frame)] \in {"start_drawing", "on_draw"})
    /\ (op.name = "draw" /\ frame # <<>>) => drawing

C14_Witness ==
    /\ pc = "while"
    /\ frame = RunOrder
    /\ has_id

----------------------------------------------------------------------------
(* The end of the main loop, checked under SpecRunFair *)

\* the statements of the loop body: an iteration is in progress
LoopBody ==
    {"get_key", "poll_events", "on_update", "start_drawing", "on_draw",
     "finish_drawing"}

\* C15: run() returns only from the loop condition, with the close request
\* set; a request made during an iteration stays set, the iteration goes on
\* to finish_drawing, the next evaluation of the loop condition returns
\* instead of starting a frame, and so run() ends after every close request.
C15_CloseRequestEndsRun ==
    /\ [][ (pc' = "returned" /\ pc # "returned")
           => (pc = "while" /\ should_close) ]_vars
    /\ [][ (pc = "while" /\ should_close) => pc' = "returned" ]_vars
    /\ [][ should_close => should_close' ]_vars
    /\ (should_close /\ pc \in LoopBody)
           ~> (pc = "aborted" \/ (pc = "while" /\ frame = RunOrder))
    /\ should_close ~> (pc = "returned" \/ pc = "aborted")

C15_Witness ==
    /\ pc = "returned"
    /\ should_close
    /\ ~key_escape

----------------------------------------------------------------------------
(* The uploads of after_setup, checked under SpecRegistry *)

\* C21: with either backend an after_setup call that returns has uploaded
\* the images in increasing handle order: upload number i writes a region
\* of width_i x height_i x 1 layer at offset (0, 0, layer i), the size being
\* that of the image whose handle is i.
C21_UploadsLayerByLayer ==
    (op.name = "after_setup" /\ op.err = "" /\ image_history # <<>>)
        => LET uploads == textures[image_gl_id].uploads
           IN  /\ Len(uploads) = Len(firstcalls)
               /\ \A k \in 1..Len(uploads) :
                     /\ firstcalls[k].ret = k - 1
                     /\ uploads[k] =
                           [xoffset |-> 0, yoffset |-> 0, layer |-> k - 1,
                            w |-> ImageSize(firstcalls[k].name)[1],
                            h |-> ImageSize(firstcalls[k].name)[2],
                            depth |-> 1]

----------------------------------------------------------------------------
(* Group handles in call order, checked under SpecHandles *)

\* C22: the register_sprite_group calls that return give the handles
\* 0, 1, 2, ... in call order (the first returns 0, each later one the
\* handle the group got before plus one); registering a group leaves the
\* (vertex array, buffer, instance count) triple and the buffer contents of
\* every earlier handle as they were, and no two handles refer to the same
\* buffer or vertex array.
C22_HandlesCountUp ==
    /\ [][ (op'.name = "inscribe" /\ op'.err = "")
           => /\ op'.ret = IF has_id THEN id + 1 ELSE 0
              /\ Len(sprite_groups') = op'.ret + 1
              /\ \A h \in 0..(op'.ret - 1) :
                    /\ sprite_groups'[h + 1] = sprite_groups[h + 1]
                    /\ buffers'[sprite_groups'[h + 1][2]]
                         = buffers[sprite_groups[h + 1][2]]
         ]_vars
    /\ [](\A g, h \in 1..Len(sprite_groups) :
            g # h => /\ sprite_groups[g][1] # sprite_groups[h][1]
                     /\ sprite_groups[g][2] # sprite_groups[h][2])

\* a second group registered, of another size than the first
C22_Witness ==
    /\ op.name = "inscribe"
    /\ op.err = ""
    /\ op.ret = 1
    /\ Len(sprite_groups) = 2
    /\ sprite_groups[1][3] # sprite_groups[2][3]

----------------------------------------------------------------------------
(* The range of size, checked under SpecGroup *)

\* C23: after any sequence of add and remove calls size is never negative,
\* and an add call that returns has written the sprite at the index size
\* had, an index inside [0, capacity).
C23_SizeNeverNegative ==
    /\ [](size >= 0)
    /\ [][ (op'.name = "add" /\ op'.err = "")
           => /\ op'.ret = size
              /\ 0 <= op'.ret
              /\ op'.ret < capacity' ]_vars

----------------------------------------------------------------------------
(* Consistency of the image registry, checked under SpecRegistry *)

\* C24: in every state, also after a load_image call in which the decoder
\* raised and the host went on, the size array holds one (w, h) pair per
\* name of the history, and the pair at positions 2h and 2h + 1 is that of
\* the name whose handle is h.
C24_OnePairPerName ==
    /\ Len(image_sizes) = 2 * Len(image_history)
    /\ \A k \in 1..Len(image_history) :
          LET item == image_history[k]
          IN  /\ 2 * item.handle + 2 <= Len(image_sizes)
              /\ <<image_sizes[2 * item.handle + 1],
                   image_sizes[2 * item.handle + 2]>>
                   = SizeEntry(variant, ImageSize(item.name)[1],
                               ImageSize(item.name)[2])

----------------------------------------------------------------------------
(* Image sizes against the maxima of the shader, checked under SpecRegistry *)

\* C25: when after_setup of the modern backend has returned, every stored
\* per-instance image size (w / 2, h / 2) is at most the maximum passed to
\* the shader on the same axis (max_image_w / 2 and max_image_h / 2 as
\* unsigned integers), so that image_w / max_w and image_h / max_h are <= 1.
C25_SizeWithinShaderMax ==
    (variant = "modern" /\ op.name = "after_setup" /\ op.err = "")
        => \A k \in 1..(Len(image_sizes) \div 2) :
              /\ image_sizes[2 * k - 1] <= global_info[3]
              /\ image_sizes[2 * k] <= global_info[4]

====
